---- MODULE Spec2Model ----
(***************************************************************************)
(* Tom Riddle's diary: the client-side interaction controller (DiaryPage)  *)
(* and the chat relay (POST /api/chat).                                    *)
(*                                                                         *)
(* Text is a sequence of symbols.  A symbol is the blank " ", a letter, or *)
(* an opaque non-blank token standing for one word of a fixed message.     *)
(* Message indices are 0-based as in the source.                           *)
(***************************************************************************)
EXTENDS Integers, Sequences, FiniteSets, TLC

VARIABLES
    \* ---- DiaryPage state (useState) ----
    scrollFlash, clickPrompt, inputValue, inputRevealed, messages,
    currentResponse, isLoading, fadingUserText, fadingAssistantIndices,
    \* ---- DiaryPage refs (useRef) ----
    scheduledFadeRef, assistantFadeTimeoutsRef, scrollFlashTimeoutRef,
    lastScrollFlashTimeRef, clickPromptTimeoutRef,
    \* ---- browser environment ----
    mounted,        \* the component is mounted (its cleanup has not run)
    inputFocused,   \* the input element holds focus
    focusRequested, \* a requestAnimationFrame callback that focuses the input is pending
    now,            \* Date.now()
    timers,         \* the timers that are set and have neither fired nor been cleared
    \* ---- the running sendMessage call ----
    sendPc, fullText, revealI,
    \* ---- network and relay ----
    apiKey,         \* process.env.GEMINI_API_KEY is set
    inflight,       \* the request travelling to / being handled by the relay
    response,       \* the settled result of fetch, not yet consumed by the client
    modelLog,       \* every chat.sendMessage the relay has issued: history, input, result
    \* ---- reading-time functions applied to a drawn content ----
    fadeInput, fadeDelay,
    \* ---- observation ----
    flashLog        \* Date.now() at the two most recent scroll flashes, -1 for none

clientVars == <<scrollFlash, clickPrompt, inputValue, inputRevealed, messages,
                currentResponse, isLoading, fadingUserText, fadingAssistantIndices,
                scheduledFadeRef, assistantFadeTimeoutsRef, scrollFlashTimeoutRef,
                lastScrollFlashTimeRef, clickPromptTimeoutRef,
                mounted, inputFocused, focusRequested, now, timers, sendPc, fullText, revealI>>
relayVars == <<apiKey, inflight, response, modelLog>>
fadeVars == <<fadeInput, fadeDelay>>
vars == <<clientVars, relayVars, fadeVars, flashLog>>

----------------------------------------------------------------------------
\* Bounds of the model.
MaxInputLen == 2        \* longest text typed into the input
MaxMessages == 4        \* history length at which no further submission is modelled
MaxTicks == 6           \* clock ticks modelled
TickMs == 150           \* milliseconds per clock tick
ClockStart == 1000      \* Date.now() when the page is constructed
MaxTurns == 23          \* longest message list drawn for the relay
MaxWords == 40          \* most words in a content drawn for the reading-time functions
LongWords == 400        \* the words of the one long content drawn for them

----------------------------------------------------------------------------
\* Text.
Blank == " "
Letters == {"a"}
EmptyText == << >>

IsSpace(c) == c = Blank

RECURSIVE TrimStart(_)
TrimStart(s) ==
    IF s = << >> THEN << >>
    ELSE IF IsSpace(Head(s)) THEN TrimStart(Tail(s)) ELSE s

RECURSIVE TrimEnd(_)
TrimEnd(s) ==
    IF s = << >> THEN << >>
    ELSE IF IsSpace(s[Len(s)]) THEN TrimEnd(SubSeq(s, 1, Len(s) - 1)) ELSE s

\* trimming at the start only
TrimLeading(s) == TrimStart(s)

\* String.prototype.trim
Trim(s) == TrimEnd(TrimStart(s))

\* the slice one symbol too long
SliceNext(s, i) == SubSeq(s, 1, IF i + 1 < Len(s) THEN i + 1 ELSE Len(s))

\* String.prototype.slice(0, i) for 0 <= i
Slice0(s, i) == SubSeq(s, 1, IF i < Len(s) THEN i ELSE Len(s))

RECURSIVE Texts(_)
\* every text of at most n symbols over the blank and the letters
Texts(n) ==
    IF n = 0 THEN {<< >>}
    ELSE LET shorter == Texts(n - 1)
         IN  shorter \cup {Append(t, c) : t \in shorter, c \in Letters \cup {Blank}}

\* A fixed message, one token per word.
Words(ws) ==
    [i \in 1..(2 * Len(ws) - 1) |-> IF i % 2 = 1 THEN ws[(i + 1) \div 2] ELSE Blank]

----------------------------------------------------------------------------
\* Numbers.  A JavaScript number is an IEEE-754 double; the reading-time
\* functions divide, add and multiply doubles, each operation rounding to the
\* nearest double (ties to even).  A non-negative double is m * 2^e with
\* m = 0 or m of exactly 53 bits; m is a natural number held as its limbs in
\* base 2^13, least significant first, without leading zero limbs.
LimbBits == 13
Base == 2 ^ LimbBits
MantissaBits == 53

Limb(a, i) == IF i >= 1 /\ i <= Len(a) THEN a[i] ELSE 0

RECURSIVE Norm(_)
Norm(a) ==
    IF a = << >> THEN << >>
    ELSE IF a[Len(a)] = 0 THEN Norm(SubSeq(a, 1, Len(a) - 1)) ELSE a

RECURSIVE NatLimbs(_)
NatLimbs(n) == IF n = 0 THEN << >> ELSE <<n % Base>> \o NatLimbs(n \div Base)

RECURSIVE LimbsNat(_)
LimbsNat(a) == IF a = << >> THEN 0 ELSE Head(a) + Base * LimbsNat(Tail(a))

RECURSIVE SmallBitLen(_)
SmallBitLen(n) == IF n = 0 THEN 0 ELSE 1 + SmallBitLen(n \div 2)

BitLen(a) == IF a = << >> THEN 0 ELSE LimbBits * (Len(a) - 1) + SmallBitLen(a[Len(a)])

\* bit i (from 0) of a
BitAt(a, i) == (Limb(a, (i \div LimbBits) + 1) \div (2 ^ (i % LimbBits))) % 2

RECURSIVE AddCarry(_, _, _, _, _)
AddCarry(a, b, i, carry, acc) ==
    IF i > Len(a) /\ i > Len(b)
    THEN (IF carry = 0 THEN acc ELSE Append(acc, carry))
    ELSE LET t == Limb(a, i) + Limb(b, i) + carry
         IN  AddCarry(a, b, i + 1, t \div Base, Append(acc, t % Base))

BAdd(a, b) == AddCarry(a, b, 1, 0, << >>)

RECURSIVE SubBorrow(_, _, _, _, _)
SubBorrow(a, b, i, borrow, acc) ==
    IF i > Len(a) THEN Norm(acc)
    ELSE LET t == Limb(a, i) - Limb(b, i) - borrow
         IN  IF t < 0 THEN SubBorrow(a, b, i + 1, 1, Append(acc, t + Base))
             ELSE SubBorrow(a, b, i + 1, 0, Append(acc, t))

\* a - b for a >= b
BSub(a, b) == SubBorrow(a, b, 1, 0, << >>)

RECURSIVE LessFrom(_, _, _)
LessFrom(a, b, i) ==
    IF i = 0 THEN FALSE
    ELSE IF a[i] # b[i] THEN a[i] < b[i] ELSE LessFrom(a, b, i - 1)

BLess(a, b) ==
    IF Len(a) # Len(b) THEN Len(a) < Len(b) ELSE LessFrom(a, b, Len(a))

\* a * 2^k
ShiftLeft(a, k) ==
    IF a = << >> THEN << >>
    ELSE LET q == k \div LimbBits
             r == k % LimbBits
             hi == 2 ^ (LimbBits - r)
         IN  Norm([i \in 1..(Len(a) + q + 1) |->
                      IF i <= q THEN 0
                      ELSE (Limb(a, i - q) % hi) * (2 ^ r) + (Limb(a, i - q - 1) \div hi)])

\* a \div 2^k
ShiftRight(a, k) ==
    LET q == k \div LimbBits
        r == k % LimbBits
        lo == 2 ^ r
    IN  IF Len(a) <= q THEN << >>
        ELSE Norm([i \in 1..(Len(a) - q) |->
                      (Limb(a, i + q) \div lo) + (Limb(a, i + q + 1) % lo) * (2 ^ (LimbBits - r))])

RECURSIVE ColumnSum(_, _, _, _)
ColumnSum(a, b, k, i) ==
    IF i > Len(a) THEN 0
    ELSE Limb(a, i) * Limb(b, k - i + 1) + ColumnSum(a, b, k, i + 1)

RECURSIVE MulCarry(_, _, _, _, _)
MulCarry(a, b, k, carry, acc) ==
    IF k > Len(a) + Len(b) THEN Norm(acc)
    ELSE LET t == ColumnSum(a, b, k, 1) + carry
         IN  MulCarry(a, b, k + 1, t \div Base, Append(acc, t % Base))

BMul(a, b) == MulCarry(a, b, 1, 0, << >>)

RECURSIVE QuotientLimb(_, _, _, _)
\* the largest q below the base with d * q <= r, found one bit at a time
QuotientLimb(r, d, bit, q) ==
    IF bit < 0 THEN q
    ELSE LET q2 == q + 2 ^ bit
         IN  IF BLess(r, BMul(d, <<q2>>)) THEN QuotientLimb(r, d, bit - 1, q)
             ELSE QuotientLimb(r, d, bit - 1, q2)

RECURSIVE DivStep(_, _, _, _, _)
\* long division, one limb of n at a time from the top
DivStep(n, d, i, q, r) ==
    IF i = 0 THEN [q |-> Norm(q), r |-> r]
    ELSE LET r2 == Norm(<<n[i]>> \o r)
             ql == QuotientLimb(r2, d, LimbBits - 1, 0)
         IN  DivStep(n, d, i - 1, <<ql>> \o q, BSub(r2, BMul(d, NatLimbs(ql))))

\* quotient and remainder of n by d > 0
BDivMod(n, d) == DivStep(n, d, Len(n), << >>, << >>)

Double(m, e) == [m |-> m, e |-> e]
Zero == Double(<< >>, 0)

\* the double nearest to n * 2^e (plus a little, when sticky), ties to even
RoundNE(n, e, sticky) ==
    IF n = << >> THEN Zero
    ELSE LET len == BitLen(n)
         IN  IF len <= MantissaBits
             THEN Double(ShiftLeft(n, MantissaBits - len), e - (MantissaBits - len))
             ELSE LET k == len - MantissaBits
                      q == ShiftRight(n, k)
                      guard == BitAt(n, k - 1) = 1
                      rest == sticky \/ ShiftLeft(ShiftRight(n, k - 1), k - 1) # n
                      up == guard /\ (rest \/ BitAt(q, 0) = 1)
                      m == IF up THEN BAdd(q, <<1>>) ELSE q
                  IN  IF BitLen(m) > MantissaBits
                      THEN Double(ShiftRight(m, 1), e + k + 1)
                      ELSE Double(m, e + k)

\* the number n (an integer literal or count)
Num(n) == RoundNE(NatLimbs(n), 0, FALSE)

\* x / y for y > 0
FDiv(x, y) ==
    IF x.m = << >> THEN Zero
    ELSE LET dm == BDivMod(ShiftLeft(x.m, MantissaBits + 2), y.m)
         IN  RoundNE(dm.q, x.e - y.e - (MantissaBits + 2), dm.r # << >>)

\* x + y
FAdd(x, y) ==
    IF x.m = << >> THEN y
    ELSE IF y.m = << >> THEN x
    ELSE LET emin == IF x.e < y.e THEN x.e ELSE y.e
         IN  RoundNE(BAdd(ShiftLeft(x.m, x.e - emin), ShiftLeft(y.m, y.e - emin)),
                     emin, FALSE)

\* x * y
FMul(x, y) ==
    IF x.m = << >> \/ y.m = << >> THEN Zero
    ELSE RoundNE(BMul(x.m, y.m), x.e + y.e, FALSE)

\* x < y
FLess(x, y) ==
    IF y.m = << >> THEN FALSE
    ELSE IF x.m = << >> THEN TRUE
    ELSE IF x.e # y.e THEN x.e < y.e
    ELSE BLess(x.m, y.m)

\* Math.min(x, y), Math.max(x, y)
MathMin(x, y) == IF FLess(y, x) THEN y ELSE x
MathMax(x, y) == IF FLess(x, y) THEN y ELSE x

\* the integer part of x, for x below 2^31
Trunc(x) ==
    IF x.m = << >> THEN 0
    ELSE IF x.e >= 0 THEN LimbsNat(ShiftLeft(x.m, x.e))
    ELSE LimbsNat(ShiftRight(x.m, 0 - x.e))

----------------------------------------------------------------------------
\* Reading time.

\* text.split(/\s+/) of a trimmed text: the pieces between the runs of blanks,
\* each given by the position of its first symbol; the empty text splits into
\* the one empty piece, given by position 0.
SplitBlanks(s) ==
    IF s = << >> THEN {0}
    ELSE {i \in 1..Len(s) : ~IsSpace(s[i]) /\ (i = 1 \/ IsSpace(s[i - 1]))}

\* the length of the text in place of its words
CharCount(text) == Len(text)

\* text.trim().split(/\s+/).filter(Boolean).length
WordCount(text) == Cardinality({p \in SplitBlanks(Trim(text)) : p # 0})

WORDS_PER_SECOND == FDiv(Num(200), Num(60))

\* function getReadingTimeSeconds(text)
getReadingTimeSeconds(text) == FDiv(Num(WordCount(text)), WORDS_PER_SECOND)

\* the delay without the clamp
UnclampedFadeDelayMs(text) ==
    FMul(FAdd(Num(4), getReadingTimeSeconds(text)), Num(1000))

\* function getAIMessageFadeDelayMs(text)
getAIMessageFadeDelayMs(text) ==
    LET readingSec == getReadingTimeSeconds(text)
        totalSec == FAdd(Num(4), readingSec)
        clamped == MathMax(Num(5), MathMin(Num(15), totalSec))
    IN  FMul(clamped, Num(1000))

----------------------------------------------------------------------------
\* The chat relay: POST /api/chat.
HistoryLimit == 20

Message(role, content) == [role |-> role, content |-> content]

ErrApiKey == Words(<<"GEMINI_API_KEY", "is", "not", "configured.">>)
ErrInvalidJson == Words(<<"Invalid", "JSON", "body.">>)
ErrMessagesRequired == Words(<<"messages", "array", "is", "required.">>)
ErrNoUserContent == Words(<<"No", "user", "message", "content.">>)
ErrNothingToSay502 ==
    Words(<<"The", "diary", "had", "nothing", "to", "say.", "It", "may", "have",
            "been", "blocked", "or", "returned", "no", "text.", "Try", "rephrasing.">>)
ErrChatFailed == Words(<<"Chat", "failed.">>)

\* What the hosted model session does with chat.sendMessage: it returns a
\* text, returns something that is not a string, or throws.
TextOutcome(t) == [kind |-> "text", text |-> t]
NonStringOutcome == [kind |-> "nonstring", text |-> EmptyText]
ThrowErrorOutcome(t) == [kind |-> "throwError", text |-> t]
ThrowStringOutcome(t) == [kind |-> "throwString", text |-> t]
ThrowOtherOutcome == [kind |-> "throwOther", text |-> EmptyText]

\* toErrorMessage(err)
toErrorMessage(o) ==
    IF o.kind = "throwError" THEN o.text
    ELSE IF o.kind = "throwString" THEN o.text
    ELSE ErrChatFailed

\* NextResponse.json(...): the status, the one field of the body and its text,
\* together with the chat.sendMessage calls made while handling the request.
JsonError(status, text, calls) ==
    [status |-> status, field |-> "error", text |-> text, calls |-> calls]
JsonContent(text, calls) ==
    [status |-> 200, field |-> "content", text |-> text, calls |-> calls]

\* the turns without the filter on the role
AnyTurns(msgs) == msgs

\* messages.filter((m) => m.role === "user")
UserTurns(msgs) == SelectSeq(msgs, LAMBDA m : m.role = "user")

\* messages.slice(0, -1).slice(-20)
HistoryMessages(msgs) ==
    LET prior == SubSeq(msgs, 1, Len(msgs) - 1)
        from == IF Len(prior) > HistoryLimit THEN Len(prior) - HistoryLimit + 1 ELSE 1
    IN  SubSeq(prior, from, Len(prior))

\* the history handed to model.startChat
ChatHistory(msgs) ==
    LET h == HistoryMessages(msgs)
    IN  [i \in 1..Len(h) |->
            [role |-> IF h[i].role = "user" THEN "user" ELSE "model",
             text |-> h[i].content]]

\* the test of the generated text without the test for blanks
NonStringGeneration(outcome) == outcome.kind # "text"

\* if (typeof text !== "string" || !text.trim())
BlankGeneration(outcome) == outcome.kind # "text" \/ Trim(outcome.text) = EmptyText

\* The body of a request as req.json() and Array.isArray see it.
Body(json, isArray, msgs) == [json |-> json, isArray |-> isArray, messages |-> msgs]

\* export async function POST(req)
POST(key, body, outcome) ==
    IF ~key THEN JsonError(500, ErrApiKey, << >>)
    ELSE IF ~body.json THEN JsonError(400, ErrInvalidJson, << >>)
    ELSE IF ~body.isArray \/ Len(body.messages) = 0
    THEN JsonError(400, ErrMessagesRequired, << >>)
    ELSE
    LET msgs == body.messages
        users == UserTurns(msgs)
    IN  IF users = << >> \/ Trim(users[Len(users)].content) = EmptyText
        THEN JsonError(400, ErrNoUserContent, << >>)
        ELSE
        LET lastUserMessage == users[Len(users)]
            \* the chat.sendMessage call: what it is given and what comes of it
            call == [history |-> ChatHistory(msgs),
                     input |-> Trim(lastUserMessage.content),
                     result |-> outcome]
        IN  IF outcome.kind \in {"throwError", "throwString", "throwOther"}
            THEN JsonError(500, toErrorMessage(outcome), <<call>>)
            ELSE IF BlankGeneration(outcome)
            THEN JsonError(502, ErrNothingToSay502, <<call>>)
            ELSE JsonContent(Trim(outcome.text), <<call>>)

\* A fetch as it settles: a response with its status and body, or a rejection.
Settled(kind, status, parsable, field, text) ==
    [kind |-> kind, status |-> status, parsable |-> parsable,
     field |-> field, text |-> text]

----------------------------------------------------------------------------
\* DiaryPage: constants.
GHOST_PHRASES == {"type...", "talk to me."}
FLASH_DURATION == 280
SCROLL_FLASH_THROTTLE_MS == 450

NoFlash == "null"       \* scrollFlash === null; the position of a flash is left out

\* A timer created by setTimeout and the message index it belongs to.  A timer
\* that is set fires at any later moment unless it is cleared first; its delay
\* is not part of the state.
Timer(kind, index) == [kind |-> kind, index |-> index]
NoTimer == Timer("null", -1)
ScrollFlashTimer == Timer("scrollFlash", -1)
ClickPromptTimer == Timer("clickPrompt", -1)
ThinkingTimer == Timer("thinking", -1)
LetterTimer == Timer("letter", -1)
FadeTimer(index) == Timer("fade", index)

\* if (ref.current) clearTimeout(ref.current)
ClearTimeout(ts, ref) == IF ref # NoTimer THEN ts \ {ref} ELSE ts

\* const showInput = inputRevealed || inputValue.length > 0 || messages.length > 0
showInput == inputRevealed \/ Len(inputValue) > 0 \/ Len(messages) > 0

\* the input rendered while a request is under way
InputRenderedWhileLoading == mounted /\ showInput /\ fadingUserText = << >>

\* {showInput && !fadingUserText && !isLoading && (<input .../>)}
InputRendered == mounted /\ showInput /\ fadingUserText = << >> /\ ~isLoading

----------------------------------------------------------------------------
\* DiaryPage: the state after construction.
scrollVars == <<scrollFlash, scrollFlashTimeoutRef, lastScrollFlashTimeRef, flashLog>>
clickVars == <<clickPrompt, clickPromptTimeoutRef>>
fadeRefVars == <<fadingAssistantIndices, scheduledFadeRef, assistantFadeTimeoutsRef>>
inputVars == <<inputValue, inputRevealed, inputFocused, focusRequested>>
chatVars == <<messages, currentResponse, isLoading, fadingUserText>>
sendVars == <<sendPc, fullText, revealI>>

ClientInit ==
    /\ scrollFlash = NoFlash
    /\ clickPrompt = FALSE
    /\ inputValue = EmptyText
    /\ inputRevealed = FALSE
    /\ messages = << >>
    /\ currentResponse = EmptyText
    /\ isLoading = FALSE
    /\ fadingUserText = << >>
    /\ fadingAssistantIndices = {}
    /\ scheduledFadeRef = {}
    /\ assistantFadeTimeoutsRef = {}
    /\ scrollFlashTimeoutRef = NoTimer
    /\ lastScrollFlashTimeRef = 0
    /\ clickPromptTimeoutRef = NoTimer
    /\ mounted = TRUE
    /\ inputFocused = FALSE
    /\ focusRequested = FALSE
    /\ now = ClockStart
    /\ timers = {}
    /\ sendPc = "idle"
    /\ fullText = EmptyText
    /\ revealI = 0

Init ==
    /\ ClientInit
    /\ apiKey \in BOOLEAN
    /\ inflight = << >>
    /\ response = << >>
    /\ modelLog = << >>
    /\ fadeInput = << >>
    /\ fadeDelay = << >>
    /\ flashLog = <<-1, -1>>

----------------------------------------------------------------------------
\* The clock.
Tick ==
    /\ now < ClockStart + MaxTicks * TickMs
    /\ now' = now + TickMs
    /\ UNCHANGED <<scrollVars, clickVars, fadeRefVars, inputVars, chatVars, sendVars,
                   mounted, timers, relayVars, fadeVars>>

----------------------------------------------------------------------------
\* Ghost flash on scroll.

\* the throttle with the duration of a flash as its window
ThrottledForFlash(nowMs, lastMs) == nowMs - lastMs < FLASH_DURATION

\* if (now - lastScrollFlashTimeRef.current < SCROLL_FLASH_THROTTLE_MS) return
Throttled(nowMs, lastMs) == nowMs - lastMs < SCROLL_FLASH_THROTTLE_MS

\* handleScroll, with the showScrollFlash it calls.  The container element
\* exists whenever the component is mounted.
handleScroll ==
    /\ mounted
    /\ IF Throttled(now, lastScrollFlashTimeRef)
       THEN UNCHANGED <<scrollVars, timers>>
       ELSE /\ lastScrollFlashTimeRef' = now
            /\ \E text \in GHOST_PHRASES : scrollFlash' = text
            /\ flashLog' = <<flashLog[2], now>>
            /\ timers' = ClearTimeout(timers, scrollFlashTimeoutRef) \cup {ScrollFlashTimer}
            /\ scrollFlashTimeoutRef' = ScrollFlashTimer
    /\ UNCHANGED <<clickVars, fadeRefVars, inputVars, chatVars, sendVars,
                   mounted, now, relayVars, fadeVars>>

\* the callback of the timer set by showScrollFlash
ScrollFlashTimeout ==
    /\ ScrollFlashTimer \in timers
    /\ timers' = timers \ {ScrollFlashTimer}
    /\ scrollFlash' = NoFlash
    /\ scrollFlashTimeoutRef' = NoTimer
    /\ UNCHANGED <<lastScrollFlashTimeRef, flashLog, clickVars, fadeRefVars, inputVars,
                   chatVars, sendVars, mounted, now, relayVars, fadeVars>>

----------------------------------------------------------------------------
\* Click prompt and input reveal.
ClickTargets == {"page", "input", "about"}

\* target.closest("[data-about]") || target.closest("footer a")
ExcludedTarget(target) == target = "about"

\* handleClick(e).  A click on the input gives it the focus, a click elsewhere
\* takes the focus away.
handleClick(target) ==
    /\ mounted
    /\ target = "input" => InputRendered
    /\ inputFocused' = (target = "input")
    /\ IF Len(messages) > 0 \/ inputValue # EmptyText \/ ExcludedTarget(target)
       THEN UNCHANGED <<inputRevealed, clickVars, timers>>
       ELSE /\ inputRevealed' = TRUE
            /\ clickPrompt' = TRUE
            /\ timers' = ClearTimeout(timers, clickPromptTimeoutRef) \cup {ClickPromptTimer}
            /\ clickPromptTimeoutRef' = ClickPromptTimer
    /\ UNCHANGED <<inputValue, focusRequested, scrollVars, fadeRefVars, chatVars, sendVars,
                   mounted, now, relayVars, fadeVars>>

\* the callback of the timer set by handleClick
ClickPromptTimeout ==
    /\ ClickPromptTimer \in timers
    /\ timers' = timers \ {ClickPromptTimer}
    /\ clickPrompt' = FALSE
    /\ clickPromptTimeoutRef' = NoTimer
    /\ UNCHANGED <<scrollVars, fadeRefVars, inputVars, chatVars, sendVars,
                   mounted, now, relayVars, fadeVars>>

\* const showClickPrompt = clickPrompt && !inputValue && messages.length === 0
showClickPrompt == clickPrompt /\ inputValue = EmptyText /\ Len(messages) = 0

----------------------------------------------------------------------------
\* Typing.
Keys == Letters \cup {Blank, "Enter", "Shift"}

\* e.key.length === 1 && !e.ctrlKey && !e.metaKey && !e.altKey && e.key !== "Enter"
Printable(key, modified) == key \in Letters \cup {Blank} /\ ~modified

\* the early returns without the test of the focus
KeypressSuppressedUnfocused(count, loading, focused) == count > 0 \/ loading

\* if (messages.length > 0 || isLoading) return
\* if (inputRef.current?.matches(":focus")) return
KeypressSuppressed(count, loading, focused) == count > 0 \/ loading \/ focused

\* onKeyDown of the document listener
onKeyDown(key, modified) ==
    /\ mounted
    /\ IF KeypressSuppressed(Len(messages), isLoading, inputFocused)
       THEN UNCHANGED inputVars
       ELSE IF Printable(key, modified)
            THEN /\ Len(inputValue) < MaxInputLen
                 /\ inputRevealed' = TRUE
                 /\ inputValue' = Append(inputValue, key)
                 /\ focusRequested' = TRUE
                 /\ UNCHANGED inputFocused
            ELSE UNCHANGED inputVars
    /\ UNCHANGED <<scrollVars, clickVars, fadeRefVars, chatVars, sendVars,
                   mounted, now, timers, relayVars, fadeVars>>

\* requestAnimationFrame(() => inputRef.current?.focus())
AnimationFrame ==
    /\ focusRequested
    /\ focusRequested' = FALSE
    /\ inputFocused' = (inputFocused \/ InputRendered)
    /\ UNCHANGED <<inputValue, inputRevealed, scrollVars, clickVars, fadeRefVars, chatVars,
                   sendVars, mounted, now, timers, relayVars, fadeVars>>

\* onChange of the input: the user edits the text of the focused input
onChange(value) ==
    /\ InputRendered
    /\ inputFocused
    /\ value # inputValue
    /\ inputValue' = value
    /\ UNCHANGED <<inputRevealed, inputFocused, focusRequested, scrollVars, clickVars,
                   fadeRefVars, chatVars, sendVars, mounted, now, timers, relayVars, fadeVars>>

----------------------------------------------------------------------------
\* Assistant fade scheduling.

\* the candidates without the test of scheduledFadeRef
AssistantCandidates(msgs, scheduled) ==
    {index \in 0..(Len(msgs) - 1) : msgs[index + 1].role = "assistant"}

\* the indices the effect on [messages] schedules: assistant messages that
\* scheduledFadeRef does not hold yet
FadeCandidates(msgs, scheduled) ==
    {index \in 0..(Len(msgs) - 1) :
        ~(msgs[index + 1].role # "assistant" \/ index \in scheduled)}

\* The effect runs after a render, so only while the component is mounted.
\* It is part of every step that changes the history: msgs is the new history
\* and ts the timers the step leaves.
ScheduleFades(msgs, ts) ==
    IF mounted
    THEN LET new == FadeCandidates(msgs, scheduledFadeRef)
         IN  /\ scheduledFadeRef' = scheduledFadeRef \cup new
             /\ assistantFadeTimeoutsRef' =
                    assistantFadeTimeoutsRef \cup {FadeTimer(index) : index \in new}
             /\ timers' = ts \cup {FadeTimer(index) : index \in new}
    ELSE /\ timers' = ts
         /\ UNCHANGED <<scheduledFadeRef, assistantFadeTimeoutsRef>>

\* the callback of a fade timer
AssistantFadeTimeout(index) ==
    /\ FadeTimer(index) \in timers
    /\ timers' = timers \ {FadeTimer(index)}
    /\ fadingAssistantIndices' = fadingAssistantIndices \cup {index}
    /\ assistantFadeTimeoutsRef' = assistantFadeTimeoutsRef \ {FadeTimer(index)}
    /\ UNCHANGED <<scheduledFadeRef, scrollVars, clickVars, inputVars, chatVars, sendVars,
                   mounted, now, relayVars, fadeVars>>

----------------------------------------------------------------------------
\* Submit message.
ErrRequestFailed == Words(<<"Request", "failed">>)
ErrRequestFailedDot == Words(<<"Request", "failed.">>)
ErrInvalidResponse == Words(<<"Invalid", "response.">>)
ErrNothingToSay == Words(<<"The", "diary", "had", "nothing", "to", "say.", "Try", "rephrasing.">>)
ErrFallback ==
    Words(<<"Something", "went", "wrong.", "Perhaps", "the", "diary", "is", "reluctant",
            "to", "reply", "just", "now.", "Try", "again.">>)
ErrFailedToFetch == Words(<<"Failed", "to", "fetch">>)

\* the user message put in front of the history
WithUserFirst(prev, text) == <<Message("user", text)>> \o prev

\* setMessages((prev) => [...prev, { role: "user", content: text }])
WithUser(prev, text) == Append(prev, Message("user", text))

\* a reply appended twice
WithAssistantTwice(prev, content) ==
    Append(Append(prev, Message("assistant", content)), Message("assistant", content))

\* no reply appended
WithoutAssistant(prev, content) == prev

\* setMessages((prev) => [...prev, { role: "assistant", content }])
WithAssistant(prev, content) == Append(prev, Message("assistant", content))

\* the guard without the test of the text
IgnoredWhenLoading(text, loading) == loading

\* if (!text || isLoading) return
Ignored(text, loading) == text = EmptyText \/ loading

\* the history of the render, without the message being submitted
StaleHistory(prev, text) == prev

\* const history = [...messages, { role: "user" as const, content: text }]
HistorySent(prev, text) == Append(prev, Message("user", text))

\* sendMessage up to its first await: the state updates and the fetch
sendMessage ==
    LET text == Trim(inputValue)
    IN  IF Ignored(text, isLoading)
        THEN UNCHANGED <<inputValue, inputFocused, chatVars, sendVars, inflight>>
        ELSE LET history == HistorySent(messages, text)
             IN  /\ Len(messages) < MaxMessages
                 /\ inputValue' = EmptyText
                 /\ fadingUserText' = <<text>>
                 /\ messages' = WithUser(messages, text)
                 /\ isLoading' = TRUE
                 /\ currentResponse' = EmptyText
                 /\ inflight' = <<Body(TRUE, TRUE, history)>>
                 /\ sendPc' = "fetch"
                 /\ inputFocused' = FALSE       \* the input is no longer rendered
                 /\ UNCHANGED <<fullText, revealI>>

\* handleKeyDown(e) of the input
handleKeyDown(key, shiftKey) ==
    /\ InputRendered
    /\ inputFocused
    /\ key \in {"Enter", "Shift"}
    /\ IF key = "Enter" /\ ~shiftKey
       THEN sendMessage
       ELSE UNCHANGED <<inputValue, inputFocused, chatVars, sendVars, inflight>>
    /\ UNCHANGED <<inputRevealed, focusRequested, scrollVars, clickVars, fadeRefVars,
                   mounted, now, timers, apiKey, response, modelLog, fadeVars>>

\* onAnimationComplete of the fading user text
FadingUserTextComplete ==
    /\ mounted
    /\ fadingUserText # << >>
    /\ fadingUserText' = << >>
    /\ UNCHANGED <<messages, currentResponse, isLoading, scrollVars, clickVars, fadeRefVars,
                   inputVars, sendVars, mounted, now, timers, relayVars, fadeVars>>

\* What the code between the fetch and the thinking delay makes of a settled
\* fetch: the message of the error it throws or catches, or the text to reveal.
Thrown(message) == [thrown |-> TRUE, message |-> message, fullText |-> EmptyText]
Reveal(text) == [thrown |-> FALSE, message |-> EmptyText, fullText |-> text]

\* a rejected fetch answered with the fixed message
ReceivedWithFallback(r) ==
    IF r.kind \in {"rejectError", "rejectOther"} THEN Thrown(ErrFallback)
    ELSE IF r.status \in 200..299 /\ r.parsable /\ r.field = "content" /\ Trim(r.text) # EmptyText
    THEN Reveal(Trim(r.text))
    ELSE Thrown(ErrFallback)

Received(r) ==
    IF r.kind = "rejectError" THEN Thrown(r.text)
    ELSE IF r.kind = "rejectOther" THEN Thrown(ErrFallback)
    ELSE
    LET ok == r.status \in 200..299
        \* data.error and data.content, as the empty or the one-element sequence
        error == IF ~r.parsable
                 THEN <<IF ok THEN ErrInvalidResponse ELSE ErrRequestFailedDot>>
                 ELSE IF r.field = "error" THEN <<r.text>> ELSE << >>
        content == IF r.parsable /\ r.field = "content" THEN <<r.text>> ELSE << >>
        full == IF content # << >> THEN Trim(content[1]) ELSE EmptyText
    IN  IF ~ok
        THEN Thrown(IF error # << >> /\ error[1] # EmptyText THEN error[1]
                    ELSE ErrRequestFailed)
        ELSE IF full = EmptyText THEN Thrown(ErrNothingToSay)
        ELSE Reveal(full)

\* sendMessage from the settled fetch to the thinking delay, or through catch
\* and finally
FetchSettled ==
    /\ sendPc = "fetch"
    /\ response # << >>
    /\ response' = << >>
    /\ LET got == Received(response[1])
       IN  IF got.thrown
           THEN /\ messages' = WithAssistant(messages, got.message)
                /\ isLoading' = FALSE
                /\ sendPc' = "idle"
                /\ ScheduleFades(messages', timers)
                /\ UNCHANGED <<fullText, revealI>>
           ELSE /\ fullText' = got.fullText
                /\ sendPc' = "thinking"
                /\ timers' = timers \cup {ThinkingTimer}
                /\ UNCHANGED <<messages, isLoading, revealI, scheduledFadeRef,
                               assistantFadeTimeoutsRef>>
    /\ UNCHANGED <<currentResponse, fadingUserText, fadingAssistantIndices, scrollVars,
                   clickVars, inputVars, mounted, now, apiKey, inflight, modelLog, fadeVars>>

\* await new Promise((r) => setTimeout(r, 2000)), then the first turn of the loop
ThinkingElapsed ==
    /\ sendPc = "thinking"
    /\ ThinkingTimer \in timers
    /\ timers' = (timers \ {ThinkingTimer}) \cup {LetterTimer}
    /\ revealI' = 0
    /\ sendPc' = "reveal"
    /\ UNCHANGED <<fullText, scrollVars, clickVars, fadeRefVars, inputVars, chatVars,
                   mounted, now, relayVars, fadeVars>>

\* one turn of the reveal loop after its delay; after the last turn the reply
\* is appended, the slot cleared and, in finally, loading is cleared
LetterElapsed ==
    /\ sendPc = "reveal"
    /\ LetterTimer \in timers
    /\ IF revealI + 1 <= Len(fullText)
       THEN /\ currentResponse' = Slice0(fullText, revealI)
            /\ revealI' = revealI + 1
            /\ timers' = timers
            /\ UNCHANGED <<fullText, messages, isLoading, sendPc, scheduledFadeRef,
                           assistantFadeTimeoutsRef>>
       ELSE /\ messages' = WithAssistant(messages, fullText)
            /\ fullText' = EmptyText       \* the call is over: its locals are gone
            /\ revealI' = 0
            /\ currentResponse' = EmptyText
            /\ isLoading' = FALSE
            /\ sendPc' = "idle"
            /\ ScheduleFades(messages', timers \ {LetterTimer})
    /\ UNCHANGED <<fadingUserText, fadingAssistantIndices, scrollVars, clickVars,
                   inputVars, mounted, now, relayVars, fadeVars>>

----------------------------------------------------------------------------
\* Teardown: the cleanup of the effect with no dependencies.

\* a cleanup that leaves the fade timers alone
CleanupTimersButFades ==
    ClearTimeout(ClearTimeout(timers, scrollFlashTimeoutRef), clickPromptTimeoutRef)

\* the timers left once the cleanup has cleared those its refs hold
CleanupTimers ==
    ClearTimeout(ClearTimeout(timers, scrollFlashTimeoutRef), clickPromptTimeoutRef)
        \ assistantFadeTimeoutsRef

Teardown ==
    /\ mounted
    /\ mounted' = FALSE
    /\ timers' = CleanupTimers
    /\ assistantFadeTimeoutsRef' = {}
    /\ inputFocused' = FALSE        \* the input element is removed
    /\ UNCHANGED <<inputValue, inputRevealed, focusRequested, scrollVars, clickVars,
                   fadingAssistantIndices, scheduledFadeRef, chatVars, sendVars, now,
                   relayVars, fadeVars>>

----------------------------------------------------------------------------
\* The network and the relay at work.
\* What the hosted model does in the runs of the page: a reply with blanks
\* around it, a blank reply, and errors with and without a message.
ModelOutcomes ==
    {TextOutcome(<<Blank, "a", "b">>), TextOutcome(<<Blank>>),
     ThrowErrorOutcome(EmptyText), ThrowErrorOutcome(Words(<<"quota", "exceeded">>))}

\* the relay handles the request in flight
RelayPOST(outcomes) ==
    /\ inflight # << >>
    /\ \E outcome \in outcomes :
         LET r == POST(apiKey, inflight[1], outcome)
         IN  /\ response' = <<Settled("response", r.status, TRUE, r.field, r.text)>>
             /\ modelLog' = modelLog \o r.calls
    /\ inflight' = << >>
    /\ UNCHANGED <<clientVars, apiKey, fadeVars, flashLog>>

\* the fetch rejects: the request never reaches the relay
FetchRejected ==
    /\ inflight # << >>
    /\ inflight' = << >>
    /\ response' = <<Settled("rejectError", 0, FALSE, "none", ErrFailedToFetch)>>
    /\ UNCHANGED <<clientVars, apiKey, modelLog, fadeVars, flashLog>>

\* something between the client and the relay answers with a body that is not JSON
GatewayStatuses == {200, 504}
GatewayResponse(status) ==
    /\ inflight # << >>
    /\ inflight' = << >>
    /\ response' = <<Settled("response", status, FALSE, "none", EmptyText)>>
    /\ UNCHANGED <<clientVars, apiKey, modelLog, fadeVars, flashLog>>

----------------------------------------------------------------------------
\* The page and its relay.  Time stands still here: the clock only matters to
\* the scroll throttle, which ScrollSpec runs against the clock.
Next ==
    \/ handleScroll
    \/ ScrollFlashTimeout
    \/ \E target \in ClickTargets : handleClick(target)
    \/ ClickPromptTimeout
    \/ \E key \in Keys, modified \in BOOLEAN : onKeyDown(key, modified)
    \/ AnimationFrame
    \/ \E value \in Texts(MaxInputLen) : onChange(value)
    \/ \E key \in Keys, shiftKey \in BOOLEAN : handleKeyDown(key, shiftKey)
    \/ FadingUserTextComplete
    \/ RelayPOST(ModelOutcomes)
    \/ FetchRejected
    \/ \E status \in GatewayStatuses : GatewayResponse(status)
    \/ FetchSettled
    \/ ThinkingElapsed
    \/ LetterElapsed
    \/ \E index \in 0..(MaxMessages - 1) : AssistantFadeTimeout(index)
    \/ Teardown

Spec == Init /\ [][Next]_vars

----------------------------------------------------------------------------
\* Scrolling against the clock.
ScrollNext ==
    \/ Tick
    \/ handleScroll
    \/ ScrollFlashTimeout
    \/ Teardown

ScrollSpec == Init /\ [][ScrollNext]_vars

----------------------------------------------------------------------------
\* The relay on its own: any request, any behaviour of the hosted model.

\* the content of turn i of a drawn list: one token naming the turn
TurnText(i) == <<ToString(i)>>

\* A list of n turns.  Under "userLast" and "assistantLast" the roles alternate
\* and the last turn has the role named; under "noUser" no turn is a user turn.
\* The last user turn holds the drawn content, every other turn its own token.
Turns(n, pattern, content) ==
    LET role(i) == IF pattern = "noUser" THEN "assistant"
                   ELSE IF (n - i) % 2 = 0
                        THEN (IF pattern = "userLast" THEN "user" ELSE "assistant")
                        ELSE (IF pattern = "userLast" THEN "assistant" ELSE "user")
        lastUser == IF pattern = "userLast" THEN n ELSE n - 1
    IN  [i \in 1..n |-> Message(role(i), IF i = lastUser THEN content ELSE TurnText(i))]

TurnPatterns == {"userLast", "assistantLast", "noUser"}
LastUserContents == {EmptyText, <<Blank, Blank>>, <<"a">>, <<Blank, "a", Blank, "b", Blank>>}

RelayBodies ==
    {Body(FALSE, FALSE, << >>), Body(TRUE, FALSE, << >>)}
        \cup {Body(TRUE, TRUE, Turns(n, pattern, content)) :
                n \in 0..MaxTurns, pattern \in TurnPatterns, content \in LastUserContents}

AllModelOutcomes ==
    ModelOutcomes
        \cup {TextOutcome(EmptyText), TextOutcome(<<"a">>), NonStringOutcome,
              ThrowStringOutcome(<<"overloaded">>), ThrowOtherOutcome}

RelayInit ==
    /\ ClientInit
    /\ apiKey \in BOOLEAN
    /\ inflight \in {<<body>> : body \in RelayBodies}
    /\ response = << >>
    /\ modelLog = << >>
    /\ fadeInput = << >>
    /\ fadeDelay = << >>
    /\ flashLog = <<-1, -1>>

RelayNext == RelayPOST(AllModelOutcomes)

RelaySpec == RelayInit /\ [][RelayNext]_vars

----------------------------------------------------------------------------
\* The reading-time functions on their own: any content.

\* A content of n words: the words "a" and "b" in turn, separated by gap
\* blanks, with pad blanks before and after.
Content(n, gap, pad) ==
    IF n = 0 THEN [i \in 1..pad |-> Blank]
    ELSE [i \in 1..(2 * pad + n + (n - 1) * gap) |->
            IF i <= pad \/ i > pad + n + (n - 1) * gap THEN Blank
            ELSE IF (i - pad - 1) % (gap + 1) = 0
                 THEN (IF ((i - pad - 1) \div (gap + 1)) % 2 = 0 THEN "a" ELSE "b")
                 ELSE Blank]

\* A drawn content: its text and, for reference, the number of words it was
\* built from.
Drawn(n, gap) == [words |-> n, text |-> Content(n, gap, gap - 1)]

WordCounts == (0..MaxWords) \cup {LongWords}

\* Two contents are drawn: any content, and one with as many words or one more.
FadeInit ==
    /\ ClientInit
    /\ apiKey = TRUE
    /\ inflight = << >>
    /\ response = << >>
    /\ modelLog = << >>
    /\ \E n \in WordCounts, more \in 0..1, gap1 \in 1..2, gap2 \in 1..2 :
         fadeInput = <<Drawn(n, gap1), Drawn(n + more, gap2)>>
    /\ fadeDelay = << >>
    /\ flashLog = <<-1, -1>>

\* const delayMs = getAIMessageFadeDelayMs(msg.content), for the next content
ComputeFadeDelay ==
    /\ Len(fadeDelay) < Len(fadeInput)
    /\ fadeDelay' =
         Append(fadeDelay, getAIMessageFadeDelayMs(fadeInput[Len(fadeDelay) + 1].text))
    /\ UNCHANGED <<clientVars, relayVars, fadeInput, flashLog>>

FadeNext == ComputeFadeDelay

FadeSpec == FadeInit /\ [][FadeNext]_vars

----------------------------------------------------------------------------
\* A conversation that goes on.  The page without its scroll flashes, click
\* prompt timers and fades; the fetch settles (the relay answers, or something
\* on the way answers, or the fetch rejects), the continuation of a settled
\* fetch runs, and a timer that is set fires.
LiveNext ==
    \/ \E target \in ClickTargets : handleClick(target)
    \/ \E key \in Keys, modified \in BOOLEAN : onKeyDown(key, modified)
    \/ AnimationFrame
    \/ \E value \in Texts(MaxInputLen) : onChange(value)
    \/ \E key \in Keys, shiftKey \in BOOLEAN : handleKeyDown(key, shiftKey)
    \/ FadingUserTextComplete
    \/ RelayPOST(ModelOutcomes)
    \/ FetchRejected
    \/ \E status \in GatewayStatuses : GatewayResponse(status)
    \/ FetchSettled
    \/ ThinkingElapsed
    \/ LetterElapsed
    \/ Teardown

FetchSettles ==
    \/ RelayPOST(ModelOutcomes)
    \/ FetchRejected
    \/ \E status \in GatewayStatuses : GatewayResponse(status)

LiveSpec ==
    /\ Init /\ [][LiveNext]_vars
    /\ WF_vars(FetchSettles)
    /\ WF_vars(FetchSettled)
    /\ WF_vars(ThinkingElapsed)
    /\ WF_vars(LetterElapsed)

----------------------------------------------------------------------------
\* Properties.

LastOf(seq) == seq[Len(seq)]
AllBlank(text) == \A k \in 1..Len(text) : text[k] = Blank
IsOk(r) == r.status >= 200 /\ r.status <= 299

\* t is raw without the blanks at its two ends
IsTrimOf(raw, t) ==
    /\ t # << >> => (~IsSpace(t[1]) /\ ~IsSpace(t[Len(t)]))
    /\ \E i \in 0..Len(raw) :
         /\ i + Len(t) <= Len(raw)
         /\ SubSeq(raw, i + 1, i + Len(t)) = t
         /\ \A k \in (1..i) \cup ((i + Len(t) + 1)..Len(raw)) : IsSpace(raw[k])

\* C1: an accepted submission appends exactly one user message, in the step
\* that sends the request; nothing is appended while the call is under way;
\* when the relay succeeded (the reply was revealed) the call ends by appending
\* exactly one assistant message, holding the reply, behind that user message;
\* and nothing else ever changes the history.
C1_OneUserThenOneAssistant ==
    [][/\ (inflight' # << >> /\ inflight = << >>) =>
              /\ sendPc = "idle" /\ sendPc' = "fetch"
              /\ Len(messages') = Len(messages) + 1
              /\ SubSeq(messages', 1, Len(messages)) = messages
              /\ LastOf(messages').role = "user"
              /\ inflight'[1].messages = messages'
       /\ (sendPc = "idle" /\ sendPc' # "idle") => (inflight' # << >> /\ inflight = << >>)
       /\ (sendPc # "idle" /\ sendPc' # "idle") => messages' = messages
       /\ (sendPc = "reveal" /\ sendPc' = "idle") =>
              /\ LastOf(messages).role = "user"
              /\ messages' = Append(messages, Message("assistant", fullText))
       /\ (sendPc = "idle" /\ sendPc' = "idle") => messages' = messages
      ]_vars

C1_Witness ==
    /\ sendPc = "idle"
    /\ Len(messages) = 4
    /\ messages[1].role = "user" /\ messages[3].role = "user"
    /\ messages[2] = Message("assistant", <<"a", "b">>)
    /\ messages[4] = Message("assistant", <<"a", "b">>)

\* C2: Enter on an input that is empty or holds only blanks changes neither the
\* history, the loading flag, the input value, the fading user text nor the
\* current response, and sends nothing to the relay.
C2_BlankSubmitChangesNothing ==
    [][(AllBlank(inputValue) /\ \E shiftKey \in BOOLEAN : handleKeyDown("Enter", shiftKey))
           => UNCHANGED <<messages, isLoading, inputValue, fadingUserText, currentResponse,
                          inflight, response, modelLog>>
      ]_vars

C2_Witness ==
    /\ InputRendered /\ inputFocused /\ ~isLoading
    /\ inputValue = <<Blank, Blank>>
    /\ messages = << >> /\ inflight = << >> /\ modelLog = << >>

\* C3: the relay's answers to bad input.
RelayAnswers == inflight # << >> /\ response' # << >> /\ response = << >>
C3_NoList(body) == body.json /\ (~body.isArray \/ Len(body.messages) = 0)
C3_BlankFinalUserTurn(body) ==
    /\ body.json /\ body.isArray
    /\ \E i \in 1..Len(body.messages) :
         /\ body.messages[i].role = "user"
         /\ AllBlank(body.messages[i].content)
         /\ \A j \in (i + 1)..Len(body.messages) : body.messages[j].role # "user"
C3_Rejects(r, text) == r.status = 400 /\ r.field = "error" /\ r.text = text

\* C3 as claimed: whatever the configuration, a parsable request without a
\* (non-empty) list gets 400 "messages array is required.", one whose final
\* user turn is blank gets 400 "No user message content.", and the model is
\* sent nothing.
C3_AsClaimed ==
    [][RelayAnswers =>
          /\ C3_NoList(inflight[1]) =>
                C3_Rejects(response'[1], ErrMessagesRequired) /\ modelLog' = modelLog
          /\ C3_BlankFinalUserTurn(inflight[1]) =>
                C3_Rejects(response'[1], ErrNoUserContent) /\ modelLog' = modelLog
      ]_vars

\* C3 (amended): with the service credential configured, a parsable request
\* without a (non-empty) list gets 400 "messages array is required.", one whose
\* final user turn is blank gets 400 "No user message content.", and in both
\* cases the model is sent nothing.
C3_RejectsBadInput ==
    [][(RelayAnswers /\ apiKey) =>
          /\ C3_NoList(inflight[1]) =>
                C3_Rejects(response'[1], ErrMessagesRequired) /\ modelLog' = modelLog
          /\ C3_BlankFinalUserTurn(inflight[1]) =>
                C3_Rejects(response'[1], ErrNoUserContent) /\ modelLog' = modelLog
      ]_vars

C3_Witness ==
    /\ apiKey /\ inflight = << >> /\ response # << >> /\ modelLog = << >>
    /\ C3_Rejects(response[1], ErrNoUserContent)

\* C4: for a request the relay accepts (the model is called), the new input is
\* the final turn of the list and the replayed context is the up to 20 turns
\* before the final turn, in order.
C4_Context(msgs) ==
    LET n == Len(msgs) - 1
        k == IF n > 20 THEN 20 ELSE n
    IN  [i \in 1..k |->
            [role |-> IF msgs[n - k + i].role = "user" THEN "user" ELSE "model",
             text |-> msgs[n - k + i].content]]

C4_FinalTurnIsInput ==
    [][(RelayAnswers /\ modelLog' # modelLog) =>
          LET msgs == inflight[1].messages
              call == LastOf(modelLog')
          IN  /\ call.input = Trim(LastOf(msgs).content)
              /\ call.history = C4_Context(msgs)
      ]_vars

\* C5: the message of the error thrown for a failed relay call: the rejection's
\* message, the error text of a non-OK response ("Request failed" when it has
\* none, "Request failed." when its body is not JSON), and "The diary had
\* nothing to say. Try rephrasing." for an OK response without content.
C5_Failed(r) ==
    \/ r.kind = "rejectError"
    \/ ~IsOk(r)
    \/ ~r.parsable
    \/ r.field # "content"
    \/ AllBlank(r.text)

C5_ErrorText(r) ==
    IF r.kind = "rejectError" THEN r.text
    ELSE IF IsOk(r) THEN ErrNothingToSay
    ELSE IF ~r.parsable THEN ErrRequestFailedDot
    ELSE IF r.field = "error" /\ r.text # EmptyText THEN r.text
    ELSE ErrRequestFailed

\* C5: when the relay call of a submission fails, the step that takes the
\* failure in appends exactly one assistant message holding the error's message
\* text and clears the loading flag; the loading flag is never set without a
\* call under way.
C5_FailureBecomesAssistantMessage ==
    /\ [][(sendPc = "fetch" /\ response # << >> /\ response' = << >>
              /\ C5_Failed(response[1])) =>
             /\ messages' = Append(messages, Message("assistant", C5_ErrorText(response[1])))
             /\ isLoading /\ ~isLoading'
             /\ sendPc' = "idle"
         ]_vars
    /\ [](isLoading <=> sendPc # "idle")

C5_Witness ==
    /\ sendPc = "idle" /\ ~isLoading
    /\ Len(messages) = 4
    /\ messages[2] = Message("assistant", ErrFailedToFetch)
    /\ messages[4] = Message("assistant", ErrRequestFailedDot)

\* C6: two scroll flashes are at least 450 ms apart, and a scroll event less
\* than 450 ms after the last flash shows no flash, sets no timer and leaves the
\* throttle timestamp alone.
C6_FlashesThrottled ==
    /\ [](flashLog[1] >= 0 => flashLog[2] - flashLog[1] >= 450)
    /\ [][(handleScroll /\ flashLog[2] >= 0 /\ now - flashLog[2] < 450) =>
             UNCHANGED <<scrollFlash, lastScrollFlashTimeRef, scrollFlashTimeoutRef,
                         timers, flashLog>>
         ]_vars

C6_Witness ==
    /\ flashLog[1] >= 0 /\ flashLog[2] - flashLog[1] = 450
    /\ scrollFlash # NoFlash /\ lastScrollFlashTimeRef = flashLog[2]

\* C7, C8: the contents drawn and their delays.
C7_Exact(w) ==
    LET ms == 4000 + 300 * w
    IN  IF ms < 5000 THEN 5000 ELSE IF ms > 15000 THEN 15000 ELSE ms
FLeq(x, y) == ~FLess(y, x)

\* C7 as claimed: the delay of a content of w words is exactly
\* clamp(4000 + 300 * w, 5000, 15000).
C7_AsClaimed ==
    \A i \in 1..Len(fadeDelay) : fadeDelay[i] = Num(C7_Exact(fadeInput[i].words))

\* C7 (amended): the delay of a content of w words lies in [5000, 15000]; it is
\* at most clamp(4000 + 300 * w, 5000, 15000) and less than a millisecond below
\* it; and it is exactly that for 1 word (5000), 13 words (7900) and 400 words
\* (15000).
C7_DelayWithinAMillisecond ==
    \A i \in 1..Len(fadeDelay) :
        LET w == fadeInput[i].words
            d == fadeDelay[i]
        IN  /\ FLeq(Num(5000), d) /\ FLeq(d, Num(15000))
            /\ FLeq(d, Num(C7_Exact(w))) /\ FLess(Num(C7_Exact(w) - 1), d)
            /\ w = 1 => d = Num(5000)
            /\ w = 13 => d = Num(7900)
            /\ w = 400 => d = Num(15000)

C7_Witness ==
    /\ Len(fadeDelay) = 2
    /\ fadeInput[1].words = 13 /\ fadeDelay[1] = Num(7900)
    /\ fadeInput[2].words = 14 /\ fadeDelay[2] = Num(8200)

\* C8 as claimed: of two contents the longer one (more symbols) never gets the
\* shorter delay.
C8_AsClaimed ==
    Len(fadeDelay) = 2 =>
        /\ Len(fadeInput[1].text) <= Len(fadeInput[2].text) => FLeq(fadeDelay[1], fadeDelay[2])
        /\ Len(fadeInput[2].text) <= Len(fadeInput[1].text) => FLeq(fadeDelay[2], fadeDelay[1])

\* C8 (amended): the delay is monotonic in the number of words: of two
\* contents the one with more words never gets the shorter delay, and contents
\* of as many words get the same delay.
C8_MonotonicInWords ==
    Len(fadeDelay) = 2 =>
        /\ fadeInput[1].words <= fadeInput[2].words => FLeq(fadeDelay[1], fadeDelay[2])
        /\ fadeInput[1].words = fadeInput[2].words => fadeDelay[1] = fadeDelay[2]

C8_Witness ==
    /\ Len(fadeDelay) = 2
    /\ fadeInput[1].words = 4 /\ fadeInput[2].words = 5
    /\ Len(fadeInput[1].text) > Len(fadeInput[2].text)
    /\ FLess(fadeDelay[1], fadeDelay[2])

\* C9: once the component is torn down no scroll-flash, click-prompt or fade
\* timer is pending, and the scroll flash, the click prompt and the faded
\* indices never change again.
C9_PageTimers == {t \in timers : t.kind \in {"scrollFlash", "clickPrompt", "fade"}}

C9_NoPageTimerAfterTeardown ==
    /\ [](~mounted => C9_PageTimers = {})
    /\ [][~mounted => UNCHANGED <<scrollFlash, clickPrompt, fadingAssistantIndices>>]_vars

C9_Witness ==
    /\ ~mounted
    /\ scrollFlash # NoFlash /\ scrollFlashTimeoutRef = ScrollFlashTimer
    /\ clickPrompt /\ clickPromptTimeoutRef = ClickPromptTimer
    /\ scheduledFadeRef = {1, 3} /\ fadingAssistantIndices = {1}

\* C10: teardown cancels every outstanding timer, and once the component is
\* torn down with a reply in its thinking delay or being revealed, no timer
\* fires and neither the current response nor the history is written.
C10_TeardownStopsReply ==
    [][/\ (mounted /\ ~mounted') => timers' = {}
       /\ (~mounted /\ sendPc \in {"thinking", "reveal"}) =>
              UNCHANGED <<timers, currentResponse, messages>>
      ]_vars

\* C11: whenever the history is non-empty or the input holds text, no scroll
\* flash and no click prompt is shown, and no step starts one.
C11_FlashAndPromptExcluded ==
    /\ []((Len(messages) > 0 \/ inputValue # EmptyText) =>
              (scrollFlash = NoFlash /\ ~showClickPrompt))
    /\ [][(Len(messages) > 0 \/ inputValue # EmptyText) =>
              /\ ~(scrollFlash = NoFlash /\ scrollFlash' # NoFlash)
              /\ ~(~clickPrompt /\ clickPrompt')
         ]_vars

\* C12: when the fetch itself rejects, the assistant message the client appends
\* is the fixed fallback text, not the message of the error thrown.
C12_RejectionGetsFallback ==
    [][(sendPc = "fetch" /\ response # << >> /\ response' = << >>
           /\ response[1].kind \in {"rejectError", "rejectOther"}) =>
          messages' = Append(messages, Message("assistant", ErrFallback))
      ]_vars

\* C13: the fade timers ever created.  scheduledFadeRef is only ever added to,
\* and a fade timer is created exactly where an index is added to it.
C13_AssistantIndices == {i \in 0..(Len(messages) - 1) : messages[i + 1].role = "assistant"}
C13_FadeTimers(ts) == {t \in ts : t.kind = "fade"}

\* C13: each assistant message is scheduled for fade exactly once.  While the
\* component is mounted every index holding an assistant message has had its
\* fade timer created; a step creates a fade timer only for an index that never
\* had one before, so none is created twice; and no fade timer is ever created
\* for the index of a user message.
C13_ScheduledExactlyOnce ==
    /\ [](mounted => scheduledFadeRef = C13_AssistantIndices)
    /\ [](scheduledFadeRef \subseteq C13_AssistantIndices)
    /\ [](C13_FadeTimers(timers) \subseteq {FadeTimer(i) : i \in scheduledFadeRef})
    /\ [][/\ scheduledFadeRef \subseteq scheduledFadeRef'
          /\ C13_FadeTimers(timers') \ C13_FadeTimers(timers) =
                {FadeTimer(i) : i \in scheduledFadeRef' \ scheduledFadeRef}
         ]_vars

C13_Witness ==
    /\ mounted /\ Len(messages) = 4
    /\ scheduledFadeRef = {1, 3}
    /\ fadingAssistantIndices = {1}
    /\ C13_FadeTimers(timers) = {FadeTimer(3)}

\* C14: a request is bad input when its body is not JSON, holds no non-empty
\* list, or has no user turn or a blank last user turn.
C14_BadInput(body) ==
    \/ ~body.json
    \/ ~body.isArray
    \/ Len(body.messages) = 0
    \/ ~\E i \in 1..Len(body.messages) :
          /\ body.messages[i].role = "user"
          /\ ~AllBlank(body.messages[i].content)
          /\ \A j \in (i + 1)..Len(body.messages) : body.messages[j].role # "user"

\* C14: every answer of the relay is a response with status 200 and as content
\* the generated text without the blanks around it, which is not empty; or 400
\* with an error, for bad input; or 502 with an error, when what was generated
\* is no text or a blank one; or 500 with an error, when the credential is
\* missing or the model session threw.  A body holds content or error, never both.
C14_ResponseClasses ==
    [][RelayAnswers =>
          LET r == response'[1]
              body == inflight[1]
              calls == SubSeq(modelLog', Len(modelLog) + 1, Len(modelLog'))
              result == calls[1].result
          IN  /\ r.kind = "response" /\ r.parsable
              /\ r.status \in {200, 400, 500, 502}
              /\ r.field = (IF r.status = 200 THEN "content" ELSE "error")
              /\ r.status = 200 =>
                    /\ apiKey /\ ~C14_BadInput(body) /\ Len(calls) = 1
                    /\ result.kind = "text"
                    /\ r.text # EmptyText /\ IsTrimOf(result.text, r.text)
              /\ r.status = 400 =>
                    /\ apiKey /\ C14_BadInput(body) /\ calls = << >>
                    /\ r.text \in {ErrInvalidJson, ErrMessagesRequired, ErrNoUserContent}
              /\ r.status = 502 =>
                    /\ apiKey /\ ~C14_BadInput(body) /\ Len(calls) = 1
                    /\ result.kind = "nonstring" \/ (result.kind = "text" /\ AllBlank(result.text))
                    /\ r.text = ErrNothingToSay502
              /\ r.status = 500 =>
                    \/ ~apiKey /\ calls = << >> /\ r.text = ErrApiKey
                    \/ /\ apiKey /\ ~C14_BadInput(body) /\ Len(calls) = 1
                       /\ result.kind \in {"throwError", "throwString", "throwOther"}
      ]_vars

C14_Witness ==
    /\ apiKey /\ inflight = << >> /\ response # << >>
    /\ response[1].status = 200 /\ response[1].text = <<"a", "b">>
    /\ Len(modelLog) = 1 /\ modelLog[1].result = TextOutcome(<<Blank, "a", "b">>)

\* C15: the step that accepts a submission appends one user message whose
\* content is the input without the blanks at its ends, and not empty; and the
\* list sent to the relay is the history before the step followed by that same
\* message, which is the new history.
C15_UserMessageIsTrimmedInput ==
    [][(inflight = << >> /\ inflight' # << >>) =>
          LET sent == inflight'[1]
              added == LastOf(messages')
          IN  /\ Len(messages') = Len(messages) + 1
              /\ added.role = "user"
              /\ added.content # EmptyText
              /\ IsTrimOf(inputValue, added.content)
              /\ sent.json /\ sent.isArray
              /\ sent.messages = Append(messages, added)
              /\ sent.messages = messages'
      ]_vars

C15_Witness ==
    /\ inflight # << >> /\ sendPc = "fetch"
    /\ Len(messages) = 3 /\ messages[3] = Message("user", <<"a">>)
    /\ inflight[1].messages = messages
    /\ inputValue = EmptyText /\ fadingUserText = <<(<<"a">>)>>

\* C16: the reveal of a reply.
C16_IsPrefix(p, s) == Len(p) <= Len(s) /\ SubSeq(s, 1, Len(p)) = p
C16_Appends == sendPc = "reveal" /\ sendPc' = "idle"
C16_Reveal ==
    /\ [](sendPc = "reveal" => C16_IsPrefix(currentResponse, fullText))
    /\ [][/\ (sendPc = "reveal" /\ sendPc' = "reveal") =>
                /\ Len(currentResponse') >= Len(currentResponse)
                /\ messages' = messages
          /\ C16_Appends => messages' = Append(messages, Message("assistant", fullText))
          /\ (currentResponse # EmptyText /\ currentResponse' = EmptyText) => C16_Appends
         ]_vars

\* C16 as claimed: during the reveal the current response is a prefix of the
\* reply and never gets shorter; it is the full reply when the assistant
\* message is appended; the message appended is the full reply; and the slot is
\* cleared only by the step that appends.
C16_AsClaimed ==
    /\ C16_Reveal
    /\ [][C16_Appends => currentResponse = fullText]_vars

\* C16 (state by state): during the reveal the current response is a prefix of
\* the reply and never gets shorter; it stays short of the full reply, and holds
\* all but the last symbol of it when the one step comes that appends the full
\* reply as the assistant message and clears the slot; the slot is cleared by
\* no other step.
C16_RevealStopsShortOfReply ==
    /\ C16_Reveal
    /\ [](sendPc = "reveal" => Len(currentResponse) < Len(fullText))
    /\ [][C16_Appends =>
             /\ currentResponse = SubSeq(fullText, 1, Len(fullText) - 1)
             /\ currentResponse' = EmptyText
         ]_vars

C16_Witness ==
    /\ sendPc = "reveal" /\ isLoading
    /\ fullText = <<"a", "b">> /\ currentResponse = <<"a">> /\ revealI = 2
    /\ Len(messages) = 1

\* C17: what is outstanding of a submission: its request on the way to the
\* relay, its settled fetch not yet taken in, or its reply in the thinking
\* delay or being revealed.
C17_Outstanding ==
    (IF inflight # << >> THEN 1 ELSE 0) + (IF response # << >> THEN 1 ELSE 0)
        + (IF sendPc \in {"thinking", "reveal"} THEN 1 ELSE 0)

\* C17: a submission is accepted only when nothing is outstanding.  While the
\* loading flag is set the input holds no focus (it is not rendered), so no
\* Enter reaches it; no step taken while loading sends a request or appends a
\* user message; and exactly one request or reply is outstanding while the
\* flag is set, none while it is clear.
C17_OneRequestAtATime ==
    /\ [](isLoading => ~inputFocused)
    /\ [](C17_Outstanding = (IF isLoading THEN 1 ELSE 0))
    /\ [][isLoading =>
             /\ inflight' # << >> => inflight' = inflight
             /\ Len(messages') > Len(messages) => LastOf(messages').role = "assistant"
         ]_vars

C17_Witness ==
    /\ isLoading /\ inflight # << >> /\ ~inputFocused
    /\ Len(messages) = 3 /\ Len(inflight[1].messages) = 3
    /\ response = << >> /\ sendPc = "fetch"

\* C18: a keypress on the document reveals the input and appends its character
\* to the input value when the history is empty, nothing is loading, the input
\* holds no focus and the key is printable and unmodified; a keypress with a
\* message in the history, or while loading, or with the input focused,
\* changes neither the revealed flag nor the input value.
C18_Allowed == Len(messages) = 0 /\ ~isLoading /\ ~inputFocused
C18_KeypressReveal ==
    [][/\ (\E key \in Keys, modified \in BOOLEAN : onKeyDown(key, modified)) =>
             \/ UNCHANGED <<inputRevealed, inputValue>>
             \/ /\ C18_Allowed
                /\ inputRevealed'
                /\ \E key \in Letters \cup {Blank} : inputValue' = Append(inputValue, key)
       /\ C18_Allowed =>
             \A key \in Letters \cup {Blank} :
                 onKeyDown(key, FALSE) =>
                     (inputRevealed' /\ inputValue' = Append(inputValue, key))
      ]_vars

C18_Witness ==
    /\ messages = << >> /\ ~isLoading /\ ~inputFocused
    /\ inputRevealed /\ inputValue = <<"a">> /\ focusRequested
    /\ ~clickPrompt /\ clickPromptTimeoutRef = NoTimer

\* C19: the history alternates user, assistant, user, assistant, ... from a
\* user message on; a step changes it only by appending at its end; it has
\* even length whenever the loading flag is clear, and ends with a user message
\* (so has odd length) while the flag is set.
C19_Alternates ==
    \A i \in 1..Len(messages) :
        messages[i].role = (IF i % 2 = 1 THEN "user" ELSE "assistant")

C19_HistoryAlternates ==
    /\ [](C19_Alternates)
    /\ [](~isLoading => Len(messages) % 2 = 0)
    /\ [](isLoading => (Len(messages) > 0 /\ LastOf(messages).role = "user"))
    /\ [][/\ Len(messages') >= Len(messages)
          /\ SubSeq(messages', 1, Len(messages)) = messages
         ]_vars

C19_Witness ==
    /\ isLoading /\ Len(messages) = 3 /\ sendPc = "thinking"
    /\ messages[2].content = <<"a", "b">>
    /\ messages[3].role = "user"

\* C20: every accepted submission completes.  With the fetch settling and the
\* timers firing, a submission that made the history n long and set the
\* loading flag leads to the flag cleared and nothing outstanding, with an
\* assistant message at place n + 1 of the history; the guard of sendMessage
\* then passes again.
C20_SubmissionCompletes ==
    \A n \in 1..MaxMessages :
        (isLoading /\ Len(messages) = n)
            ~> (/\ ~isLoading /\ sendPc = "idle" /\ inflight = << >> /\ response = << >>
                /\ Len(messages) = n + 1
                /\ messages[n + 1].role = "assistant"
                /\ messages[n].role = "user")

C20_Witness ==
    /\ ~isLoading /\ sendPc = "idle" /\ mounted
    /\ Len(messages) = 4
    /\ messages[2].content = <<"a", "b">>
    /\ messages[4].content = ErrNothingToSay
    /\ InputRendered

\* C21: every request of the client holds a non-empty list that ends with a
\* user turn of non-blank content, the message just submitted; so the relay,
\* answering this client, never answers 400 "messages array is required." or
\* 400 "No user message content.", and whenever it calls the model the input
\* is the content of that last turn, the message the user just submitted, with
\* the turns before it (at most 20) as context.
C21_ClientRequestsAreValid ==
    /\ [](inflight # << >> =>
             LET body == inflight[1]
             IN  /\ body.json /\ body.isArray /\ Len(body.messages) > 0
                 /\ LastOf(body.messages).role = "user"
                 /\ ~AllBlank(LastOf(body.messages).content)
                 /\ body.messages = messages)
    /\ [](response # << >> =>
             /\ response[1].status # 400
             /\ response[1].text \notin {ErrMessagesRequired, ErrNoUserContent})
    /\ [][modelLog' # modelLog =>
             LET call == LastOf(modelLog')
             IN  /\ RelayAnswers /\ Len(modelLog') = Len(modelLog) + 1
                 /\ LastOf(messages).role = "user"
                 /\ call.input = LastOf(messages).content
                 /\ call.history = C4_Context(messages)
         ]_vars

C21_Witness ==
    /\ apiKey /\ inflight = << >> /\ response # << >> /\ response[1].status = 200
    /\ Len(messages) = 3 /\ Len(modelLog) = 2
    /\ modelLog[2].input = <<"a">> /\ messages[3].content = <<"a">>
    /\ Len(modelLog[2].history) = 2

====
